---- MODULE Spec2Model ----
(***************************************************************************)
(* A model of the SEO auditor: sitemap discovery (fetch_sitemap_urls),     *)
(* the audit entry points (run_audit_ui, audit_site), the page analyzer    *)
(* (analyze_page) and the screenshot capture (run_capture_ui).             *)
(* The repository holds two revisions of the crawl code:                   *)
(* the package src/seo_auditor ("pkg") and the notebook src/main.py        *)
(* ("main").  The variable impl says which revision a behaviour runs.      *)
(***************************************************************************)
EXTENDS Integers, Sequences, FiniteSets, TLC

VARIABLES
    impl,        \* "pkg" (src/seo_auditor) or "main" (src/main.py)
    \* ---- sitemap resolution -------------------------------------------
    site,        \* the server: sitemap URL -> [status, sitemaps]
    stack,       \* call stack of fetch_sitemap_urls, top frame last
    collected,   \* the shared set `collected`
    gets,        \* sitemap URL -> number of GETs issued in this top-level call
    calls,       \* <<d, k>>: a call on d's document recursed into its k-th entry
    parsed,      \* sitemap URLs whose body some call parsed
    run,         \* 0: idle, 1: first top-level call, 2: second one
    results,     \* the set each finished top-level call returned
    smpc,        \* "idle" | "running" | "done" | "raised"
    \* ---- run_audit_ui ---------------------------------------------------
    urls_input,    \* the text box, as the pieces between its commas
    audit_robots,  \* the page URLs of the sitemap robots.txt names, if it names one
    max_pages,     \* the Page Limit box
    urls_list,
    discovered,    \* urls_to_scan as discovery left it, before the limit
    urls_to_scan,
    rerun_to_scan, \* urls_to_scan of a second run on the same inputs and sitemap
    domain_netloc,
    sitemap_args,  \* the arguments of the calls of fetch_sitemap_urls
    dispatched,    \* the URLs analyze_page was called on, in order
    audit_results, \* `results`: the records analyze_page returned
    progress_log,  \* the fractions passed to progress(), as <<num, den>>
    audit_out,     \* the status message returned
    aupc,          \* "idle" | "entry" | "discover" | "loop" | "analyzing" | "done" | "raised"
    \* ---- analyze_page ---------------------------------------------------
    resp,          \* what the server answers to the GET of the page
    page,          \* the HTML document at the URL
    link_answers,  \* what the server answers to a HEAD of each internal link
    result,        \* the PageRecord under construction
    links_to_test, \* the sampled internal links
    checks,        \* sampled link -> "queued" | "running" | "finished" | "collected"
    heads,         \* link -> number of HEAD requests issued for it
    broken_count,
    appc,          \* "idle" | "get" | "parse" | "pool" | "issues" | "done" | "raised"
    \* ---- audit_site (src/main.py) ---------------------------------------
    start,         \* the url argument
    robots,        \* what the server has at /robots.txt
    listed,        \* the URLs the sitemaps of the site resolve to
    pages,         \* the set `pages`
    site_data,     \* `data`: the rows analyze_page returned, in order
    df,            \* the DataFrame after the post-processing
    aspc,          \* "idle" | "gather" | "crawl" | "done" | "raised"
    \* ---- run_capture_ui -------------------------------------------------
    capture_input,    \* the text box, as the pieces between its commas
    browser,          \* whether chromium launches, and which pages it can shoot
    capture_urls,     \* urls_list
    screenshot_paths, \* the value bound to screenshot_paths
    pdf_calls,        \* the arguments of the calls of create_pdf
    capture_out,      \* the triple returned
    cppc,             \* "idle" | "entry" | "capture" | "pdf" | "report" | "done" | "raised"
    \* ---- reporter.prepare_dataframe, save_excel ----------------------------
    report_df,        \* the DataFrame handed to prepare_dataframe
    report_display,   \* the DataFrame it returns
    report_sheet,     \* the header row save_excel wrote
    rppc,             \* "idle" | "prepare" | "save" | "done"
    \* ---- capturer.capture_screenshots, awaited -----------------------------
    shot_urls,        \* urls: for each input URL, whether its page can be captured
    shot_progress,    \* whether a progress callback was passed
    shot_launches,    \* whether chromium launches
    shot_task,        \* per input position: "pending" | "capturing" | "done"
    shot_sem,         \* the value of the semaphore
    shot_results,     \* results
    shot_files,       \* the numbers N of the files N.png saved in output_folder
    shot_out,         \* the value returned
    shpc,             \* "idle" | "launch" | "tasks" | "collected" | "done"
    \* ---- ui.confirm_and_update, ui.auto_fix_schema --------------------------
    wp_handler,       \* which of the two handlers runs
    wp_input,         \* urls_input split at its commas; for confirm_and_update, [url]
    wp_api_key,       \* api_key
    wp_user,          \* wp_user
    wp_pass,          \* wp_pass
    wp_content,       \* new_schema_content
    wp_gen,           \* what generate_improved_schema returns for the page
    wp_disk,          \* whether the backup file can be written
    wp_site,          \* how the WordPress site answers
    wp_url,           \* url
    wp_backups,       \* the backup files written
    wp_pushes,        \* the arguments of the calls of push_schema_to_wordpress
    wp_posts,         \* the payloads of the POSTs issued to the site
    wp_out,           \* the value returned
    wppc              \* "idle" | "confirm" | "backup" | "fix" | "generate" | "push" |
                      \* "done" | "raised"

smVars == <<site, stack, collected, gets, calls, parsed, run, results, smpc>>
auVars == <<urls_input, audit_robots, max_pages, urls_list, discovered, urls_to_scan, rerun_to_scan,
            domain_netloc,
            sitemap_args, dispatched, audit_results, progress_log, audit_out, aupc>>
apVars == <<resp, page, link_answers, result, links_to_test, checks, heads,
            broken_count, appc>>
asVars == <<start, robots, listed, pages, site_data, df, aspc>>
cpVars == <<capture_input, browser, capture_urls, screenshot_paths, pdf_calls, capture_out,
            cppc>>
rpVars == <<report_df, report_display, report_sheet, rppc>>
shVars == <<shot_urls, shot_progress, shot_launches, shot_task, shot_sem, shot_results,
            shot_files, shot_out, shpc>>
wpVars == <<wp_handler, wp_input, wp_api_key, wp_user, wp_pass, wp_content, wp_gen, wp_disk,
            wp_site, wp_url, wp_backups, wp_pushes, wp_posts, wp_out, wppc>>
vars == <<impl, smVars, auVars, apVars, asVars, cpVars, rpVars, shVars, wpVars>>

\* What an operation of one part leaves alone.
notSitemap == <<auVars, apVars, asVars, cpVars, rpVars, shVars, wpVars>>
notAudit == <<smVars, apVars, asVars, cpVars, rpVars, shVars, wpVars>>
notAnalyze == <<smVars, auVars, asVars, cpVars, rpVars, shVars, wpVars>>
notSite == <<smVars, auVars, apVars, cpVars, rpVars, shVars, wpVars>>
notCapture == <<smVars, auVars, apVars, asVars, rpVars, shVars, wpVars>>
notReport == <<smVars, auVars, apVars, asVars, cpVars, shVars, wpVars>>
notShots == <<smVars, auVars, apVars, asVars, cpVars, rpVars, wpVars>>
notWordPress == <<smVars, auVars, apVars, asVars, cpVars, rpVars, shVars>>

Impls == {"pkg", "main"}

SitemapIdle ==
    /\ site = <<>> /\ stack = <<>> /\ collected = {} /\ gets = <<>> /\ calls = {}
    /\ parsed = {} /\ run = 0 /\ results = <<>> /\ smpc = "idle"

AuditIdle ==
    /\ urls_input = <<>> /\ audit_robots = {} /\ max_pages = [none |-> TRUE, n |-> 0]
    /\ urls_list = <<>> /\ discovered = <<>> /\ urls_to_scan = <<>>
    /\ rerun_to_scan = <<>>
    /\ domain_netloc = <<>> /\ sitemap_args = <<>> /\ dispatched = <<>>
    /\ audit_results = <<>> /\ progress_log = <<>> /\ audit_out = "" /\ aupc = "idle"

AnalyzeIdle ==
    /\ resp = <<>> /\ page = <<>> /\ link_answers = <<>> /\ result = <<>>
    /\ links_to_test = <<>> /\ checks = <<>> /\ heads = <<>> /\ broken_count = 0
    /\ appc = "idle"

SiteIdle ==
    /\ start = <<>> /\ robots = <<>> /\ listed = <<>> /\ pages = {} /\ site_data = <<>>
    /\ df = <<>> /\ aspc = "idle"

CaptureIdle ==
    /\ capture_input = <<>> /\ browser = <<>> /\ capture_urls = <<>>
    /\ screenshot_paths = <<>> /\ pdf_calls = <<>> /\ capture_out = <<>> /\ cppc = "idle"

ReportIdle ==
    /\ report_df = <<>> /\ report_display = <<>> /\ report_sheet = <<>> /\ rppc = "idle"

ShotsIdle ==
    /\ shot_urls = <<>> /\ shot_progress = FALSE /\ shot_launches = FALSE
    /\ shot_task = <<>> /\ shot_sem = 0 /\ shot_results = <<>> /\ shot_files = {}
    /\ shot_out = <<>> /\ shpc = "idle"

WordPressIdle ==
    /\ wp_handler = "" /\ wp_input = <<>> /\ wp_api_key = "" /\ wp_user = "" /\ wp_pass = ""
    /\ wp_content = "" /\ wp_gen = <<>> /\ wp_disk = FALSE /\ wp_site = "" /\ wp_url = <<>>
    /\ wp_backups = <<>> /\ wp_pushes = <<>> /\ wp_posts = <<>> /\ wp_out = <<>>
    /\ wppc = "idle"

(***************************************************************************)
(* Sitemap resolution.                                                     *)
(***************************************************************************)

\* The interpreter's stack, counted in nested calls of fetch_sitemap_urls:
\* the GET of a call nested deeper than this raises RecursionError.
RecursionLimit == 3

SitemapUrls == {"index", "child-a", "child-b"}
RootSitemap == "index"

\* A <sitemap> entry is the URL in its <loc>, or NoLoc when it has no <loc>.
NoLoc == "no-loc"
Entries == SitemapUrls \cup {NoLoc}
EntryLists ==
    {<<>>} \cup {<<a>> : a \in Entries} \cup {<<a, b>> : a \in Entries, b \in Entries}

\* What the server answers for a sitemap URL: a 200 with well-formed XML
\* (and its <sitemap> entries), a non-200, or a 200 whose body is not XML.
Documents ==
    [status : {"ok"}, sitemaps : EntryLists]
        \cup [status : {"http_error", "malformed"}, sitemaps : {<<>>}]

\* Every well-formed document also lists one page: <url><loc>page-of-d</loc></url>.
PageOf(d) == <<"page", d>>
UrlLocs(d) == {PageOf(d)}

\* main.py seeds `pages` with the home page before the call (main.py:352-356);
\* ui.py calls with collected=None (ui.py:41, crawler.py:23-24).
HomePage == <<"page", "home">>
InitialCollected(i) == IF i = "main" THEN {HomePage} ELSE {}

Sitemaps(d) == IF site[d].status = "ok" THEN site[d].sitemaps ELSE <<>>
Locs(d) == IF site[d].status = "ok" THEN UrlLocs(d) ELSE {}

Frame(u) == [url |-> u, pc |-> "get", i |-> 1]
Top == stack[Len(stack)]
Pop == SubSeq(stack, 1, Len(stack) - 1)
SetTop(f) == [stack EXCEPT ![Len(stack)] = f]
NoGets == [u \in SitemapUrls |-> 0]

\* The state after a step of the resolver.  An empty stack means the
\* outermost call returned coll: the result is recorded, and the first
\* top-level call is followed by a second one against the same server.
Step(st, coll, g, c, p) ==
    IF st # <<>>
    THEN /\ stack' = st
         /\ collected' = coll
         /\ gets' = g
         /\ calls' = c
         /\ parsed' = p
         /\ UNCHANGED <<run, results, smpc>>
    ELSE /\ results' = Append(results, coll)
         /\ IF run = 1
            THEN /\ run' = 2
                 /\ stack' = <<Frame(RootSitemap)>>
                 /\ collected' = InitialCollected(impl)
                 /\ gets' = NoGets
                 /\ calls' = {}
                 /\ parsed' = {}
                 /\ smpc' = "running"
            ELSE /\ stack' = st
                 /\ collected' = coll
                 /\ gets' = g
                 /\ calls' = c
                 /\ parsed' = p
                 /\ smpc' = "done"
                 /\ UNCHANGED run

\* return collected
Return(g, p) == Step(Pop, collected, g, calls, p)

\* An exception leaves fetch_sitemap_urls and reaches its caller.
Propagate(g, p) ==
    /\ smpc' = "raised"
    /\ stack' = <<>>
    /\ gets' = g
    /\ parsed' = p
    /\ UNCHANGED <<collected, calls, run, results>>

Swallow_Uncaught(g, p) == Propagate(g, p)
\* except Exception: pass; return collected
Swallow(g, p) == Return(g, p)

\* The nesting exhausted the interpreter's stack: RecursionError is raised
\* inside session.get, in the try block, and the same except clause
\* swallows it.
StackExhausted_Uncaught(g, p) == Propagate(g, p)
StackExhausted(g, p) == Swallow(g, p)

\* r = session.get(sitemap_url); the status check; the parse of the body.
Fetch ==
    /\ smpc = "running"
    /\ Top.pc = "get"
    /\ IF Len(stack) > RecursionLimit
       THEN StackExhausted(gets, parsed)
       ELSE LET g == [gets EXCEPT ![Top.url] = @ + 1] IN
            CASE site[Top.url].status = "http_error" ->
                     \* if r.status_code != 200: return collected
                     Return(g, parsed)
              [] site[Top.url].status = "malformed" /\ impl = "main" ->
                     \* ET.fromstring raises ParseError
                     Swallow(g, parsed)
              [] OTHER ->
                     \* parsed; BeautifulSoup finds no node in a body that
                     \* is not XML, so both loops are empty
                     Step(SetTop([Top EXCEPT !.pc = "sitemaps"]), collected, g,
                          calls, parsed \cup {Top.url})
    /\ UNCHANGED <<impl, site, notSitemap>>

\* for sitemap in soup.find_all("sitemap"): the entry has a <loc>:
\* fetch_sitemap_urls(loc, collected)
Recurse ==
    /\ smpc = "running"
    /\ Top.pc = "sitemaps"
    /\ Top.i <= Len(Sitemaps(Top.url))
    /\ Sitemaps(Top.url)[Top.i] # NoLoc
    /\ Step(Append(SetTop([Top EXCEPT !.i = @ + 1]), Frame(Sitemaps(Top.url)[Top.i])),
            collected, gets, calls \cup {<<Top.url, Top.i>>}, parsed)
    /\ UNCHANGED <<impl, site, notSitemap>>

\* The entry has no <loc>.  crawler.py: `if loc:` skips it.  main.py:
\* s.find("loc").text raises AttributeError in the try block.
EntryWithoutLoc ==
    /\ smpc = "running"
    /\ Top.pc = "sitemaps"
    /\ Top.i <= Len(Sitemaps(Top.url))
    /\ Sitemaps(Top.url)[Top.i] = NoLoc
    /\ IF impl = "main"
       THEN Swallow(gets, parsed)
       ELSE Step(SetTop([Top EXCEPT !.i = @ + 1]), collected, gets, calls, parsed)
    /\ UNCHANGED <<impl, site, notSitemap>>

\* After the <sitemap> loop.  main.py returns here when the document had
\* <sitemap> nodes (main.py:66-71); otherwise the <url> loop adds every
\* <loc> to collected, and the call returns.
Finish ==
    /\ smpc = "running"
    /\ Top.pc = "sitemaps"
    /\ Top.i > Len(Sitemaps(Top.url))
    /\ IF impl = "main" /\ Sitemaps(Top.url) # <<>>
       THEN Return(gets, parsed)
       ELSE Step(Pop, collected \cup Locs(Top.url), gets, calls, parsed)
    /\ UNCHANGED <<impl, site, notSitemap>>

InitSitemap ==
    /\ impl \in Impls
    /\ site \in [SitemapUrls -> Documents]
    /\ stack = <<Frame(RootSitemap)>>
    /\ collected = InitialCollected(impl)
    /\ gets = NoGets
    /\ calls = {}
    /\ parsed = {}
    /\ run = 1
    /\ results = <<>>
    /\ smpc = "running"
    /\ AuditIdle
    /\ AnalyzeIdle
    /\ SiteIdle
    /\ CaptureIdle
    /\ ReportIdle
    /\ ShotsIdle
    /\ WordPressIdle

NextSitemap == Fetch \/ Recurse \/ EntryWithoutLoc \/ Finish

\* One thread runs the resolver: it always takes its next step.
SpecSitemap == InitSitemap /\ [][NextSitemap]_vars /\ WF_vars(NextSitemap)

(***************************************************************************)
(* run_audit_ui.  A string is a sequence of letters; the letters used here *)
(* are chunks such as "http" and ".co", none of which begins with another. *)
(***************************************************************************)

MaxPageLimit == 3

Sp == " "
Https == <<"http", "s", "://">>

\* str.strip()
RECURSIVE Strip(_)
Strip(s) ==
    IF s = <<>> THEN s
    ELSE IF Head(s) = Sp THEN Strip(Tail(s))
    ELSE IF s[Len(s)] = Sp THEN Strip(SubSeq(s, 1, Len(s) - 1))
    ELSE s

\* url.startswith("http")
StartsWithHttp(s) == s # <<>> /\ s[1] = "http"

\* str.lower(), letter by letter
LowerLetter(c) ==
    CASE c = "A" -> "a" [] c = "P" -> "p" [] c = "H" -> "h" [] c = "O" -> "o" [] OTHER -> c
Lower(s) == [k \in 1..Len(s) |-> LowerLetter(s[k])]

\* [u.strip() for u in urls_input.split(',') if u.strip()]
RECURSIVE StripAll(_)
StripAll(pieces) ==
    IF pieces = <<>> THEN <<>>
    ELSE IF Strip(Head(pieces)) = <<>> THEN StripAll(Tail(pieces))
    ELSE <<Strip(Head(pieces))>> \o StripAll(Tail(pieces))

\* if not url.startswith("http"): urls_list[i] = "https://" + url
Prefixed(list) ==
    [k \in 1..Len(list) |-> IF StartsWithHttp(list[k]) THEN list[k] ELSE Https \o list[k]]

\* urlparse(url).netloc: what follows "://", up to the next "/"
Netloc(s) ==
    IF \E k \in 1..Len(s) : s[k] = "://"
    THEN LET k == CHOOSE k \in 1..Len(s) : s[k] = "://" /\ \A j \in 1..(k - 1) : s[j] # "://"
             rest == SubSeq(s, k + 1, Len(s))
             stop == IF \E j \in 1..Len(rest) : rest[j] = "/"
                     THEN (CHOOSE j \in 1..Len(rest) :
                              rest[j] = "/" /\ \A m \in 1..(j - 1) : rest[m] # "/") - 1
                     ELSE Len(rest)
         IN  SubSeq(rest, 1, stop)
    ELSE <<>>

\* urljoin(start_url, "sitemap.xml"): the last path segment of the base is
\* replaced; a base without a scheme is a path, replaced as a whole.
JoinSitemapXml(base) ==
    IF \E k \in 1..Len(base) : base[k] = "://"
    THEN IF \E k \in 1..Len(base) : base[k] = "/"
         THEN LET last == CHOOSE k \in 1..Len(base) :
                              base[k] = "/" /\ \A j \in (k + 1)..Len(base) : base[j] # "/"
              IN  SubSeq(base, 1, last) \o <<"sitemap.xml">>
         ELSE base \o <<"/", "sitemap.xml">>
    ELSE <<"sitemap.xml">>

\* The pieces the text box can hold between commas.
Pieces ==
    { <<>>, <<Sp>>, <<"a", ".co">>, <<"A", ".co">>, <<Sp, "a", ".co", Sp>>,
      <<"b", ".co">>, Https \o <<"a", ".co">>, <<"http", "x", ".co">> }
\* The text box: "" is the single empty piece.
EmptyInput == << <<>> >>
Inputs == {<<a>> : a \in Pieces} \cup {<<a, b>> : a \in Pieces, b \in Pieces}

\* The Page Limit box (gr.Number, precision=0): an integer, or None when
\* it was cleared.
NoNumber == [none |-> TRUE, n |-> 0]
Number(k) == [none |-> FALSE, n |-> k]
PageLimits == {Number(k) : k \in -1..MaxPageLimit} \cup {NoNumber}

\* What a sitemap may list: the <loc> texts fetch_sitemap_urls collects.
SitemapPages ==
    { Https \o <<"a", ".co">>, Https \o <<"a", ".co", "/", "p">>,
      Https \o <<"a", ".co", "/", "P">> }

\* robots.txt of the site: without a "Sitemap:" line, or with one whose
\* sitemap lists a page.
RobotsSitemaps == {{}, {Https \o <<"a", ".co", "/", "p">>}}

\* list(found_sitemap): the elements of a set in some order.
Orders(S) == {f \in [1..Cardinality(S) -> S] : \A j, k \in DOMAIN f : f[j] = f[k] => j = k}

Truncate_OneMore(list, n) == SubSeq(list, 1, IF n + 1 < Len(list) THEN n + 1 ELSE Len(list))
\* urls_to_scan[:int(max_pages)]
Truncate(list, n) == SubSeq(list, 1, IF n < Len(list) THEN n ELSE Len(list))

\* Lines 26-34: the empty-input check, the split and the https:// prefix.
AuditEnter ==
    /\ aupc = "entry"
    /\ IF urls_input = EmptyInput
       THEN /\ audit_out' = "Please enter URL(s)."
            /\ aupc' = "done"
            /\ UNCHANGED urls_list
       ELSE /\ urls_list' = Prefixed(StripAll(urls_input))
            /\ aupc' = "discover"
            /\ UNCHANGED audit_out
    /\ UNCHANGED <<impl, urls_input, audit_robots, max_pages, discovered, urls_to_scan, rerun_to_scan,
                   domain_netloc, sitemap_args, dispatched, audit_results, progress_log,
                   notAudit>>

\* Lines 50-51, after discovery chose urls_to_scan.  None > 0 raises
\* TypeError.
AuditLimit(scan, again, netloc, args, log) ==
    /\ discovered' = scan
    /\ domain_netloc' = netloc
    /\ sitemap_args' = args
    /\ progress_log' = log
    /\ IF max_pages.none
       THEN /\ aupc' = "raised"
            /\ urls_to_scan' = scan
            /\ rerun_to_scan' = again
       ELSE /\ aupc' = "loop"
            /\ urls_to_scan' = IF max_pages.n > 0 THEN Truncate(scan, max_pages.n) ELSE scan
            /\ rerun_to_scan' =
                  IF max_pages.n > 0 THEN Truncate(again, max_pages.n) ELSE again

\* Lines 36-51: one URL is looked up in its sitemap, several are scanned
\* as given.  fetch_sitemap_urls returns a set of <loc> texts; an empty
\* urls_list makes urls_to_scan[0] raise IndexError.  list(found_sitemap)
\* is the set in its iteration order, which a second run need not repeat.
AuditDiscover ==
    /\ aupc = "discover"
    /\ IF Len(urls_list) = 1
       THEN \E found \in SUBSET SitemapPages :
              \E order \in Orders(found), order_again \in Orders(found) :
                AuditLimit(IF found # {} THEN order ELSE urls_list,
                           IF found # {} THEN order_again ELSE urls_list,
                           Netloc(urls_list[1]),
                           Append(sitemap_args, JoinSitemapXml(urls_list[1])),
                           Append(progress_log, <<1, 10>>))
       ELSE IF urls_list = <<>>
            THEN /\ aupc' = "raised"
                 /\ urls_to_scan' = urls_list
                 /\ rerun_to_scan' = urls_list
                 /\ UNCHANGED <<discovered, domain_netloc, sitemap_args, progress_log>>
            ELSE AuditLimit(urls_list, urls_list, Netloc(urls_list[1]), sitemap_args,
                            progress_log)
    /\ UNCHANGED <<impl, urls_input, audit_robots, max_pages, urls_list, dispatched, audit_results,
                   audit_out, notAudit>>

\* Lines 54-56: progress((i + 1) / len(urls_to_scan)), then the call of
\* analyze_page(url, domain_netloc).
AuditProgress ==
    /\ aupc = "loop"
    /\ Len(dispatched) < Len(urls_to_scan)
    /\ progress_log' = Append(progress_log, <<Len(dispatched) + 1, Len(urls_to_scan)>>)
    /\ dispatched' = Append(dispatched, urls_to_scan[Len(dispatched) + 1])
    /\ aupc' = "analyzing"
    /\ UNCHANGED <<impl, urls_input, audit_robots, max_pages, urls_list, discovered, urls_to_scan,
                   rerun_to_scan, domain_netloc, sitemap_args, audit_results, audit_out,
                   notAudit>>

\* Lines 56-57: analyze_page returns a record, which is appended, or
\* raises.
AuditAnalyze ==
    /\ aupc = "analyzing"
    /\ \E returns \in BOOLEAN :
         IF returns
         THEN /\ audit_results' = Append(audit_results, [url |-> dispatched[Len(dispatched)]])
              /\ aupc' = "loop"
         ELSE /\ aupc' = "raised"
              /\ UNCHANGED audit_results
    /\ UNCHANGED <<impl, urls_input, audit_robots, max_pages, urls_list, discovered, urls_to_scan,
                   rerun_to_scan, domain_netloc, sitemap_args, dispatched, progress_log,
                   audit_out, notAudit>>

\* Lines 59-66: the report of the records collected.
AuditReport ==
    /\ aupc = "loop"
    /\ Len(dispatched) = Len(urls_to_scan)
    /\ audit_out' = "Audit Complete."
    /\ aupc' = "done"
    /\ UNCHANGED <<impl, urls_input, audit_robots, max_pages, urls_list, discovered, urls_to_scan,
                   rerun_to_scan, domain_netloc, sitemap_args, dispatched, audit_results,
                   progress_log, notAudit>>

InitAudit ==
    /\ impl = "pkg"
    /\ urls_input \in Inputs
    /\ audit_robots \in RobotsSitemaps
    /\ max_pages \in PageLimits
    /\ urls_list = <<>>
    /\ discovered = <<>>
    /\ urls_to_scan = <<>>
    /\ rerun_to_scan = <<>>
    /\ domain_netloc = <<>>
    /\ sitemap_args = <<>>
    /\ dispatched = <<>>
    /\ audit_results = <<>>
    /\ progress_log = <<>>
    /\ audit_out = ""
    /\ aupc = "entry"
    /\ SitemapIdle
    /\ AnalyzeIdle
    /\ SiteIdle
    /\ CaptureIdle
    /\ ReportIdle
    /\ ShotsIdle
    /\ WordPressIdle

NextAudit == AuditEnter \/ AuditDiscover \/ AuditProgress \/ AuditAnalyze \/ AuditReport

SpecAudit == InitAudit /\ [][NextAudit]_vars

(***************************************************************************)
(* analyze_page: the environment (the server's answers and the document).  *)
(***************************************************************************)

MaxAnchors == 3
\* config.py: MAX_BROKEN_LINK_CHECKS = 20 and ThreadPoolExecutor(max_workers=20);
\* main.py: MAX_INTERNAL_LINK_CHECK = 50.  Scaled down, pages with more
\* links than the cap included.
MAX_BROKEN_LINK_CHECKS == 2
PoolWorkers == 2
MAX_INTERNAL_LINK_CHECK == 2

PageUrl == Https \o <<"a", ".co", "/">>
SiteNetloc == Netloc(PageUrl)

\* The GET of the page: no connection (or a timeout), or a response.
ConnectionFailed ==
    [conn |-> "error", status |-> 0, html |-> FALSE, https |-> FALSE, size_kb |-> 0,
     elapsed |-> 0]
Responses ==
    {ConnectionFailed} \cup
    [conn : {"ok"}, status : {200, 301, 404, 500}, html : BOOLEAN, https : BOOLEAN,
     size_kb : {10, 2001}, elapsed : {0, 3}]
BaseResponse ==
    [conn |-> "ok", status |-> 200, html |-> TRUE, https |-> TRUE, size_kb |-> 10,
     elapsed |-> 0]

\* Text is a sequence of one-character letters.
Home == <<"H", "o", "m", "e">>
home == <<"h", "o", "m", "e">>
Other == <<"O", "t", "h", "e", "r">>
LongTitle == [k \in 1..61 |-> "x"]

\* A <title>: its .string (<<>> when it has none).
Titles ==
    { <<>>, <<Home>>, << <<>> >>, << <<Sp>> \o Home >>, <<LongTitle>>, <<Home, Other>> }
\* The first <meta name=~description>, and its content attribute.
NoTag == [present |-> FALSE, value |-> <<>>]
Tag(v) == [present |-> TRUE, value |-> v]
Metas == {NoTag, Tag(<<>>), Tag(Other)}
\* The heading tags h1..h6 in document order.
Heading(n, t) == [level |-> n, text |-> t]
HeadingLists ==
    { <<>>, <<Heading(1, home)>>, <<Heading(1, Other)>>, <<Heading(2, Other)>>,
      <<Heading(2, Other), Heading(1, home)>>, <<Heading(1, home), Heading(1, Other)>> }
Canonicals == {NoTag, Tag(PageUrl)}
WordCounts == {12, 300}
\* The <img> tags: TRUE for one with a non-empty alt.
ImgLists == {<<>>, <<TRUE>>, <<FALSE, TRUE>>}

\* JSON values.
Str(x) == [k |-> "str", s |-> x, keys |-> <<>>, items |-> <<>>]
JNum == [k |-> "num", s |-> "5", keys |-> <<>>, items |-> <<>>]
JList(xs) == [k |-> "list", s |-> "", keys |-> <<>>, items |-> xs]
JDict(ks, vs) == [k |-> "dict", s |-> "", keys |-> ks, items |-> vs]
\* A <script type="application/ld+json">: without text, with text that is
\* not JSON, or with a JSON value.
EmptyScript == [text |-> FALSE, json |-> FALSE, data |-> Str("")]
MalformedScript == [text |-> TRUE, json |-> FALSE, data |-> Str("")]
Script(v) == [text |-> TRUE, json |-> TRUE, data |-> v]
IdOnly == JDict(<<"@id">>, <<Str("x")>>)
Scripts ==
    { EmptyScript, MalformedScript,
      Script(JDict(<<"@type">>, <<Str("Article")>>)),
      Script(JDict(<<"@type">>, <<JList(<<Str("Person"), Str("Article")>>)>>)),
      Script(JDict(<<"@graph">>, <<JList(<<JDict(<<"@type">>, <<Str("Person")>>)>>)>>)),
      Script(JDict(<<"@type">>, <<JNum>>)),
      Script(JDict(<<"@type", "author">>, <<IdOnly, JDict(<<"@type">>, <<Str("Person")>>)>>)),
      Script(JDict(<<"@type">>, <<JList(<<Str("Article"), IdOnly>>)>>)) }
ScriptLists == {<<>>} \cup {<<a>> : a \in Scripts} \cup {<<a, b>> : a \in Scripts, b \in Scripts}

\* The href of an <a href=...>.
Hrefs ==
    { <<"javascript:", "void(0)">>, <<"mailto:", "x">>, <<"tel:", "1">>, <<"#", "top">>,
      <<"/", "a">>, <<"/", "b">>, <<"/", "c">>, <<"/", "a", "#", "top">>,
      Https \o <<"ext", ".co", "/">>, <<"http", "://", "[">> }
AnchorLists == UNION {[1..n -> Hrefs] : n \in 0..MaxAnchors}

BasePage ==
    [titles |-> <<Home>>, meta |-> Tag(Other), headings |-> <<Heading(1, Other)>>,
     canonical |-> Tag(PageUrl), words |-> 300, imgs |-> <<TRUE>>,
     scripts |-> <<Script(JDict(<<"@type">>, <<Str("Article")>>))>>, anchors |-> <<>>]

\* The documents analyzed: the base page with its content, its JSON-LD or
\* its anchors varied.
ContentPages ==
    {[BasePage EXCEPT !.titles = t, !.meta = m, !.headings = h, !.canonical = c,
                      !.words = w, !.imgs = i] :
        t \in Titles, m \in Metas, h \in HeadingLists, c \in Canonicals,
        w \in WordCounts, i \in ImgLists}
SchemaPages == {[BasePage EXCEPT !.scripts = x] : x \in ScriptLists}
LinkPages == {[BasePage EXCEPT !.anchors = a] : a \in AnchorLists}

\* What a HEAD of a link answers: a status, or nothing in time.
Answered(code) == [timeout |-> FALSE, status |-> code]
TimedOut == [timeout |-> TRUE, status |-> 0]
Answers == {Answered(200), Answered(404), TimedOut}

(***************************************************************************)
(* analyze_page: the pure steps.                                           *)
(***************************************************************************)

\* utils.get_schema_types.  types_found is a set: its elements must be
\* hashable; an exception inside one script's try block ends that script
\* and keeps what was added before it.
Hashable(v) == v.k \in {"str", "num"}
Outcome(found, exc) == [types |-> found, raised |-> exc]

RECURSIVE UpdateAll(_, _)
\* types_found.update(t): the items are added one by one.
UpdateAll(xs, found) ==
    IF xs = <<>> THEN Outcome(found, FALSE)
    ELSE IF ~Hashable(Head(xs)) THEN Outcome(found, TRUE)
    ELSE UpdateAll(Tail(xs), found \cup {Head(xs)})

RECURSIVE extract_recursive(_, _)
RECURSIVE ExtractEach(_, _)
ExtractEach(xs, found) ==
    IF xs = <<>> THEN Outcome(found, FALSE)
    ELSE LET first == extract_recursive(Head(xs), found)
         IN  IF first.raised THEN first ELSE ExtractEach(Tail(xs), first.types)

extract_recursive(data, found) ==
    IF data.k = "dict"
    THEN LET typed == \E i \in 1..Len(data.keys) : data.keys[i] = "@type"
             t == data.items[CHOOSE i \in 1..Len(data.keys) : data.keys[i] = "@type"]
             added == IF ~typed THEN Outcome(found, FALSE)
                      ELSE IF t.k = "list" THEN UpdateAll(t.items, found)
                      ELSE IF Hashable(t) THEN Outcome(found \cup {t}, FALSE)
                      ELSE Outcome(found, TRUE)
         IN  IF added.raised THEN added ELSE ExtractEach(data.items, added.types)
    ELSE IF data.k = "list" THEN ExtractEach(data.items, found)
    ELSE Outcome(found, FALSE)

RECURSIVE TypesFound(_, _)
\* for script in scripts: if script.string: try: ... except: continue
TypesFound(scripts, found) ==
    IF scripts = <<>> THEN found
    ELSE LET sc == Head(scripts)
         IN  IF sc.text /\ sc.json
             THEN TypesFound(Tail(scripts), extract_recursive(sc.data, found).types)
             ELSE TypesFound(Tail(scripts), found)

\* sorted(list(types_found)) of the type names the documents use.
TypeNames == <<"Article", "Person">>
RECURSIVE SortedNames(_, _)
SortedNames(names, S) ==
    IF names = <<>> THEN <<>>
    ELSE (IF Str(Head(names)) \in S THEN <<Head(names)>> ELSE <<>>)
         \o SortedNames(Tail(names), S)

\* ", ".join(sorted(list(types_found))), outside every try block: a
\* TypeError when an element is not a string.
get_schema_types(scripts) ==
    LET found == TypesFound(scripts, {})
    IN  IF \E v \in found : v.k # "str"
        THEN [raised |-> TRUE, value |-> <<>>]
        ELSE [raised |-> FALSE, value |-> SortedNames(TypeNames, found)]

\* urljoin(url, href) for the hrefs above; urlsplit raises ValueError
\* ("Invalid IPv6 URL") on an unmatched bracket in the netloc.
InvalidUrl(href) == \E i \in 1..Len(href) : href[i] = "["
UrlJoin(base, href) ==
    IF href = <<>> THEN base
    ELSE IF \E i \in 1..Len(href) : href[i] = "://" THEN href
    ELSE IF Head(href) = "/" THEN SubSeq(base, 1, 3) \o Netloc(base) \o href
    ELSE base \o href

\* abs_href.split("#")[0]
BeforeFragment(u) ==
    IF \E i \in 1..Len(u) : u[i] = "#"
    THEN SubSeq(u, 1, (CHOOSE i \in 1..Len(u) : u[i] = "#" /\ \A j \in 1..(i - 1) : u[j] # "#") - 1)
    ELSE u

\* href.startswith((...)): the prefixes each revision skips.
SkippedPrefixes(i) ==
    IF i = "pkg" THEN {"javascript:", "mailto:", "tel:", "#"}
    ELSE {"javascript:", "mailto:", "tel:"}
\* What an anchor's href resolves to: its full URL.
Target(i, href) ==
    IF i = "pkg" THEN UrlJoin(PageUrl, href) ELSE BeforeFragment(UrlJoin(PageUrl, Strip(href)))

NoLinks == [internal |-> 0, external |-> 0, targets |-> {}, raised |-> FALSE]
RECURSIVE ScanAnchors(_, _, _)
\* The loop over soup.find_all("a", href=True).
ScanAnchors(i, anchors, acc) ==
    IF anchors = <<>> THEN acc
    ELSE LET href == IF i = "pkg" THEN Head(anchors) ELSE Strip(Head(anchors))
         IN  IF href # <<>> /\ Head(href) \in SkippedPrefixes(i)
             THEN ScanAnchors(i, Tail(anchors), acc)
             ELSE IF InvalidUrl(href) THEN [acc EXCEPT !.raised = TRUE]
             ELSE IF Netloc(Target(i, href)) = SiteNetloc
             THEN ScanAnchors(i, Tail(anchors),
                      [acc EXCEPT !.internal = @ + 1, !.targets = @ \cup {Target(i, href)}])
             ELSE ScanAnchors(i, Tail(anchors), [acc EXCEPT !.external = @ + 1])

\* The set of full URLs the page's internal anchors resolve to.
InternalTargets(i, anchors) == ScanAnchors(i, anchors, NoLinks).targets

(***************************************************************************)
(* analyze_page(url, domain_netloc), for url = PageUrl.                    *)
(***************************************************************************)

\* The result dict as built on entry.  The notebook revision has no
\* https_ok, page_size_kb and schema_types keys: there they keep these
\* values.
DefaultResult ==
    [url |-> PageUrl, status_code |-> 0, status_type |-> "Unknown", https_ok |-> FALSE,
     page_size_kb |-> 0, schema_types |-> <<>>, title |-> <<>>, title_len |-> 0,
     meta_description |-> <<>>, meta_description_len |-> 0, h1_text |-> <<>>,
     h1_count |-> 0, word_count |-> 0, canonical |-> <<>>, internal_links |-> 0,
     external_links |-> 0, broken_links |-> 0, load_time_s |-> 0,
     multiple_title_tags |-> FALSE, h1_equals_title |-> FALSE,
     sequential_h1_error |-> FALSE, missing_alt_count |-> 0, issues_found |-> <<>>]

\* An entry of issues_found: its text, and the number the text is
\* formatted with (0 when it has none).
Issue(name, n) == [name |-> name, n |-> n]
When_Never(cond, issue) == <<>>
When(cond, issue) == IF cond THEN <<issue>> ELSE <<>>

StatusType(i, code) ==
    IF 200 <= code /\ code < 300 THEN "Success"
    ELSE IF 300 <= code /\ code < 400 THEN "Redirect"
    ELSE IF 400 <= code /\ code < 500 THEN "Client Error"
    ELSE IF i = "pkg" \/ code >= 500 THEN "Server Error"
    ELSE "Unknown"

\* The except branch of the GET.
ConnectionError(i, res) ==
    IF i = "pkg"
    THEN [res EXCEPT !.issues_found = Append(@, Issue("Conn Error: {e}", 0))]
    ELSE [res EXCEPT !.status_type = "Connection Error",
                     !.issues_found = Append(@, Issue("Connection failed: {e}", 0))]

\* The try block of the GET.
Responded(i, res, r) ==
    LET common == [res EXCEPT !.load_time_s = r.elapsed, !.status_code = r.status,
                              !.status_type = StatusType(i, r.status)]
    IN  IF i = "pkg"
        THEN [common EXCEPT !.page_size_kb = r.size_kb, !.https_ok = r.https]
        ELSE common

\* if "text/html" not in Content-Type or r.status_code >= 400: return result
SkipsParsing(r) == ~r.html \/ r.status >= 400

CountMissing(imgs) == Cardinality({k \in 1..Len(imgs) : ~imgs[k]})

\* The title, meta description, heading, canonical, text and image steps.
Content(i, res, doc) ==
    LET title == IF doc.titles # <<>> /\ doc.titles[1] # <<>>
                 THEN Strip(doc.titles[1]) ELSE <<>>
        meta == IF doc.meta.present /\ doc.meta.value # <<>>
                THEN Strip(doc.meta.value) ELSE <<>>
        h1s == SelectSeq(doc.headings, LAMBDA h : h.level = 1)
        h1_text == IF h1s # <<>> THEN h1s[1].text ELSE <<>>
        canonical == IF doc.canonical.present /\ doc.canonical.value # <<>>
                     THEN (IF i = "pkg" THEN doc.canonical.value
                           ELSE Strip(doc.canonical.value))
                     ELSE <<>>
    IN  [res EXCEPT !.multiple_title_tags = Len(doc.titles) > 1,
                    !.title = title, !.title_len = Len(title),
                    !.meta_description = meta, !.meta_description_len = Len(meta),
                    !.h1_count = Len(h1s), !.h1_text = h1_text,
                    !.h1_equals_title =
                        title # <<>> /\ h1_text # <<>> /\ Lower(title) = Lower(h1_text),
                    !.sequential_h1_error =
                        doc.headings # <<>> /\ doc.headings[1].level # 1,
                    !.canonical = canonical, !.word_count = doc.words,
                    !.missing_alt_count = CountMissing(doc.imgs)]

LinkCap_Uncapped(i) == MaxAnchors
\* list(...)[:cap]: the cap of each revision.
LinkCap(i) == IF i = "pkg" THEN MAX_BROKEN_LINK_CHECKS ELSE MAX_INTERNAL_LINK_CHECK

check_link_status_StatusOnly(answer) == answer.status >= 400
\* check_link_status: status >= 400, or any exception.
check_link_status(answer) == answer.timeout \/ answer.status >= 400

\* The issue rules of the package revision, in the order of the code.
IssuesPkg(res) ==
    When(~res.https_ok, Issue("Not HTTPS", 0))
    \o When(res.page_size_kb > 2000, Issue("Large Page (>2MB)", 0))
    \o When(res.schema_types = <<>>, Issue("No Schema", 0))
    \o When(res.title_len = 0, Issue("Missing Title", 0))
    \o When(res.title_len # 0 /\ res.title_len > 60, Issue("Title > 60 chars", 0))
    \o When(res.h1_count = 0, Issue("Missing H1", 0))
    \o When(res.h1_count > 1, Issue("Multiple H1s", 0))
    \o When(res.h1_equals_title, Issue("Title == H1", 0))
    \o When(res.missing_alt_count > 0, Issue("{n} Images missing Alt", res.missing_alt_count))
    \o When(res.broken_links > 0, Issue("{n} Broken Links", res.broken_links))

\* The issue rules of the notebook revision.
IssuesMain(res) ==
    When(res.status_code >= 400, Issue("Status {n}", res.status_code))
    \o When(res.multiple_title_tags, Issue("Multiple <title> tags", 0))
    \o When(res.title_len = 0, Issue("Missing Title", 0))
    \o When(res.title_len # 0 /\ res.title_len > 60, Issue("Title too long", 0))
    \o When(res.h1_count = 0, Issue("Missing H1", 0))
    \o When(res.h1_count > 1, Issue("Multiple H1s", 0))
    \o When(res.sequential_h1_error, Issue("Hierarchy Error: H1 is not first heading", 0))
    \o When(res.h1_equals_title, Issue("Title identical to H1", 0))
    \o When(res.broken_links > 0, Issue("{n} Broken Links", res.broken_links))
    \o When(res.missing_alt_count > 0, Issue("{n} Images missing Alt", res.missing_alt_count))
    \o When(res.word_count < 300, Issue("Thin Content", 0))

\* Lines 73-96: the GET, its except branch and the early return.
AnalyzeGet ==
    /\ appc = "get"
    /\ IF resp.conn = "error"
       THEN /\ result' = ConnectionError(impl, result)
            /\ appc' = "done"
       ELSE /\ result' = Responded(impl, result, resp)
            /\ appc' = IF SkipsParsing(resp) THEN "done" ELSE "parse"
    /\ UNCHANGED <<impl, resp, page, link_answers, links_to_test, checks, heads,
                   broken_count, notAnalyze>>

\* Lines 98-155: the parse, the schema types, the content fields, the
\* anchor loop and the sample.  None of it is inside a try block: an
\* exception leaves analyze_page.
AnalyzeParse ==
    /\ appc = "parse"
    /\ LET schema == get_schema_types(page.scripts)
           links == ScanAnchors(impl, page.anchors, NoLinks)
           content == Content(impl, result, page)
       IN  IF (impl = "pkg" /\ schema.raised) \/ links.raised
           THEN /\ appc' = "raised"
                /\ UNCHANGED <<result, links_to_test, checks, heads, broken_count>>
           ELSE /\ result' =
                      IF impl = "pkg"
                      THEN [content EXCEPT !.schema_types = schema.value,
                                           !.internal_links = links.internal,
                                           !.external_links = links.external]
                      ELSE [content EXCEPT !.external_links = links.external]
                /\ \E order \in Orders(links.targets) :
                      /\ links_to_test' = Truncate(order, LinkCap(impl))
                      /\ checks' = [k \in 1..Len(links_to_test') |-> "queued"]
                /\ heads' = [l \in links.targets |-> 0]
                /\ broken_count' = 0
                /\ appc' = "pool"
    /\ UNCHANGED <<impl, resp, page, link_answers, notAnalyze>>

Running == {k \in DOMAIN checks : checks[k] = "running"}

\* A pool worker takes a submitted check and sends the HEAD.
StartCheck(k) ==
    /\ appc = "pool" /\ impl = "pkg"
    /\ checks[k] = "queued"
    /\ Cardinality(Running) < PoolWorkers
    /\ checks' = [checks EXCEPT ![k] = "running"]
    /\ heads' = [heads EXCEPT ![links_to_test[k]] = @ + 1]
    /\ UNCHANGED <<impl, resp, page, link_answers, result, links_to_test, broken_count,
                   appc, notAnalyze>>

\* check_link_status returns in the worker.
FinishCheck(k) ==
    /\ appc = "pool" /\ impl = "pkg"
    /\ checks[k] = "running"
    /\ checks' = [checks EXCEPT ![k] =
                     IF check_link_status(link_answers[links_to_test[k]])
                     THEN "broken" ELSE "fine"]
    /\ UNCHANGED <<impl, resp, page, link_answers, result, links_to_test, heads,
                   broken_count, appc, notAnalyze>>

\* as_completed yields a finished future to the loop of lines 160-163.
Collect(k) ==
    /\ appc = "pool" /\ impl = "pkg"
    /\ checks[k] \in {"broken", "fine"}
    /\ broken_count' = broken_count + (IF checks[k] = "broken" THEN 1 ELSE 0)
    /\ checks' = [checks EXCEPT ![k] = "collected"]
    /\ UNCHANGED <<impl, resp, page, link_answers, result, links_to_test, heads, appc,
                   notAnalyze>>

\* main.py 205-210: the HEADs one after the other, in list order.
HeadNext(k) ==
    /\ appc = "pool" /\ impl = "main"
    /\ checks[k] = "queued"
    /\ \A j \in 1..(k - 1) : checks[j] = "collected"
    /\ heads' = [heads EXCEPT ![links_to_test[k]] = @ + 1]
    /\ broken_count' =
          broken_count + (IF check_link_status(link_answers[links_to_test[k]]) THEN 1 ELSE 0)
    /\ checks' = [checks EXCEPT ![k] = "collected"]
    /\ UNCHANGED <<impl, resp, page, link_answers, result, links_to_test, appc,
                   notAnalyze>>

\* Lines 165-180: the counts and the issue rules, once every check is in.
AnalyzeIssues ==
    /\ appc = "pool"
    /\ \A k \in DOMAIN checks : checks[k] = "collected"
    /\ LET counted == IF impl = "pkg"
                      THEN [result EXCEPT !.broken_links = broken_count]
                      ELSE [result EXCEPT !.broken_links = broken_count,
                                          !.internal_links = Cardinality(DOMAIN heads)]
       IN  result' = [counted EXCEPT !.issues_found =
                         @ \o (IF impl = "pkg" THEN IssuesPkg(counted) ELSE IssuesMain(counted))]
    /\ appc' = "done"
    /\ UNCHANGED <<impl, resp, page, link_answers, links_to_test, checks, heads,
                   broken_count, notAnalyze>>

\* One call of analyze_page, of either revision: any response for the base
\* page, or the base response for any of the pages.
InitAnalyze ==
    /\ impl \in Impls
    /\ \/ resp \in Responses /\ page = BasePage
       \/ resp = BaseResponse /\ page \in ContentPages \cup SchemaPages \cup LinkPages
    /\ link_answers \in [InternalTargets(impl, page.anchors) -> Answers]
    /\ result = DefaultResult
    /\ links_to_test = <<>>
    /\ checks = <<>>
    /\ heads = <<>>
    /\ broken_count = 0
    /\ appc = "get"
    /\ SitemapIdle
    /\ AuditIdle
    /\ SiteIdle
    /\ CaptureIdle
    /\ ReportIdle
    /\ ShotsIdle
    /\ WordPressIdle

NextAnalyze ==
    \/ AnalyzeGet
    \/ AnalyzeParse
    \/ \E k \in DOMAIN checks : StartCheck(k)
    \/ \E k \in DOMAIN checks : FinishCheck(k)
    \/ \E k \in DOMAIN checks : Collect(k)
    \/ \E k \in DOMAIN checks : HeadNext(k)
    \/ AnalyzeIssues

SpecAnalyze == InitAnalyze /\ [][NextAnalyze]_vars

(***************************************************************************)
(* audit_site(url) of the notebook revision (src/main.py).                 *)
(***************************************************************************)

\* f"{parsed.scheme}://{domain}"
BaseUrl(url) == SubSeq(url, 1, 3) \o Netloc(url)

StartUrls == {Https \o <<"a", ".co">>, Https \o <<"a", ".co", "/", "p">>}
\* /robots.txt: absent, or present with or without a "Sitemap:" line.
RobotsFiles ==
    {[exists |-> FALSE, sitemap_line |-> FALSE], [exists |-> TRUE, sitemap_line |-> FALSE],
     [exists |-> TRUE, sitemap_line |-> TRUE]}
\* What fetch_sitemap_urls adds to the set it is given: for /sitemap.xml
\* and for the sitemap robots.txt names.
Listings == [standard : SUBSET SitemapPages, named : SUBSET SitemapPages]

\* The URLs of the site in the order of Python's string comparison.
PagesInOrder ==
    << Https \o <<"a", ".co">>, Https \o <<"a", ".co", "/", "P">>,
       Https \o <<"a", ".co", "/", "p">> >>
\* sorted(list(pages))
SortedPages(S) == SelectSeq(PagesInOrder, LAMBDA u : u \in S)

\* What analyze_page reports for a page, as far as the post-processing
\* reads it.
RowTitles == {<<>>, Home, home, Other}
RowIssues == {<<>>, <<Issue("Missing H1", 0)>>}
Row(u, t, i) == [url |-> u, title |-> t, issues_found |-> i]

\* df.duplicated(subset=['title'], keep=False): another row has the same
\* title.
Duplicated(rows, k) == \E j \in DOMAIN rows : j # k /\ rows[j].title = rows[k].title
OkMark == <<Issue("OK", 0)>>
\* Lines 392-402: the columns the post-processing adds.
PostProcessed(rows) ==
    [k \in DOMAIN rows |->
        [url |-> rows[k].url, title |-> rows[k].title,
         issues_found |-> rows[k].issues_found,
         duplicate_title |-> Duplicated(rows, k) /\ rows[k].title # <<>>,
         suggestions |-> IF rows[k].issues_found # <<>> THEN rows[k].issues_found ELSE OkMark,
         is_orphan |-> "N/A (Sitemap based)"]]

\* Lines 343-365: robots.txt, the home page, /sitemap.xml and the sitemap
\* robots.txt names when the first one gave nothing.
SiteGather ==
    /\ aspc = "gather"
    /\ LET home_only == {BaseUrl(start)}
           first == home_only \cup listed.standard
       IN  pages' = IF Cardinality(first) = 1 /\ robots.exists /\ robots.sitemap_line
                    THEN first \cup listed.named
                    ELSE first
    /\ aspc' = "crawl"
    /\ UNCHANGED <<impl, start, robots, listed, site_data, df, notSite>>

\* Lines 371-374: analyze_page on the next page of sorted(list(pages)); it
\* returns a row, or raises.
SiteAnalyze ==
    /\ aspc = "crawl"
    /\ Len(site_data) < Cardinality(pages)
    /\ LET p == SortedPages(pages)[Len(site_data) + 1] IN
         \/ \E t \in RowTitles, i \in RowIssues :
               /\ site_data' = Append(site_data, Row(p, t, i))
               /\ UNCHANGED aspc
         \/ /\ aspc' = "raised"
            /\ UNCHANGED site_data
    /\ UNCHANGED <<impl, start, robots, listed, pages, df, notSite>>

\* Lines 386-409: the DataFrame, its post-processing and the report.
SitePostProcess ==
    /\ aspc = "crawl"
    /\ Len(site_data) = Cardinality(pages)
    /\ df' = PostProcessed(site_data)
    /\ aspc' = "done"
    /\ UNCHANGED <<impl, start, robots, listed, pages, site_data, notSite>>

InitSite ==
    /\ impl = "main"
    /\ start \in StartUrls
    /\ robots \in RobotsFiles
    /\ listed \in Listings
    /\ pages = {}
    /\ site_data = <<>>
    /\ df = <<>>
    /\ aspc = "gather"
    /\ SitemapIdle
    /\ AuditIdle
    /\ AnalyzeIdle
    /\ CaptureIdle
    /\ ReportIdle
    /\ ShotsIdle
    /\ WordPressIdle

NextSite == SiteGather \/ SiteAnalyze \/ SitePostProcess

SpecSite == InitSite /\ [][NextSite]_vars

(***************************************************************************)
(* run_capture_ui and capturer.capture_screenshots.                        *)
(***************************************************************************)

\* The Python values the handler binds: None, a list of paths, the
\* (folder, paths) tuple, and the coroutine object of an `async def` call,
\* which holds what awaiting it would return.
PyNone == [kind |-> "None", paths |-> <<>>]
PyList(ps) == [kind |-> "list", paths |-> ps]
PyTuple(ps) == [kind |-> "tuple", paths |-> ps]
Coroutine(v) == [kind |-> "coroutine", paths |-> v.paths]
\* bool(v): None and the empty list are false; a pair and a coroutine
\* object are true.
Truthy(v) == v.kind \in {"tuple", "coroutine"} \/ (v.kind = "list" /\ v.paths # <<>>)
\* len(v) and iter(v) raise TypeError on a coroutine object.
Sized(v) == v.kind \in {"list", "tuple"}

\* Whether chromium launches, and which of the pages it manages to shoot.
Browsers == [launches : BOOLEAN, shoots : [1..2 -> BOOLEAN]]

\* The body of capture_screenshots: (output_folder, []) when the browser
\* does not launch, otherwise the paths "{idx + 1}.png" of the captures
\* that succeeded, in the order of the URLs.
Captured(urls, b) ==
    IF ~b.launches THEN PyTuple(<<>>)
    ELSE PyTuple(SelectSeq([k \in 1..Len(urls) |-> k], LAMBDA k : b.shoots[k]))

\* capture_screenshots(urls_list, progress=progress): the function is an
\* `async def`, so the call runs nothing and returns a coroutine object.
capture_screenshots(urls, b) == Coroutine(Captured(urls, b))

\* create_pdf: None for no paths; iterating a value that is not iterable
\* raises inside its try block, which returns None; else the file name.
create_pdf(v) ==
    IF ~Truthy(v) \/ ~Sized(v) \/ v.paths = <<>> THEN PyNone ELSE PyList(<<"pdf">>)

Returned(shots, pdf, status) == [shots |-> shots, pdf |-> pdf, status |-> status]

\* Lines 69-76: the empty-input check, the split, the prefix.
CaptureEnter ==
    /\ cppc = "entry"
    /\ IF capture_input = EmptyInput
       THEN /\ capture_out' = Returned(PyNone, PyNone, "Please enter URL(s).")
            /\ cppc' = "done"
            /\ UNCHANGED capture_urls
       ELSE /\ capture_urls' = Prefixed(StripAll(capture_input))
            /\ cppc' = "capture"
            /\ UNCHANGED capture_out
    /\ UNCHANGED <<impl, capture_input, browser, screenshot_paths, pdf_calls, notCapture>>

\* Lines 77-81: the call of capture_screenshots and the test of its value.
CaptureCall ==
    /\ cppc = "capture"
    /\ screenshot_paths' = capture_screenshots(capture_urls, browser)
    /\ IF ~Truthy(screenshot_paths')
       THEN /\ capture_out' = Returned(PyNone, PyNone, "Failed to capture screenshots.")
            /\ cppc' = "done"
       ELSE /\ cppc' = "pdf"
            /\ UNCHANGED capture_out
    /\ UNCHANGED <<impl, capture_input, browser, capture_urls, pdf_calls, notCapture>>

\* Lines 83-85: the call of create_pdf.
CapturePdf ==
    /\ cppc = "pdf"
    /\ pdf_calls' = Append(pdf_calls, [arg |-> screenshot_paths,
                                       filename |-> <<"capture_", "{time}", ".pdf">>,
                                       returned |-> create_pdf(screenshot_paths)])
    /\ cppc' = "report"
    /\ UNCHANGED <<impl, capture_input, browser, capture_urls, screenshot_paths,
                   capture_out, notCapture>>

\* Line 87: the returned triple; its message takes len(screenshot_paths).
CaptureReport ==
    /\ cppc = "report"
    /\ IF Sized(screenshot_paths)
       THEN /\ capture_out' = Returned(screenshot_paths, pdf_calls[1].returned,
                                       "Capture Complete.")
            /\ cppc' = "done"
       ELSE /\ cppc' = "raised"
            /\ UNCHANGED capture_out
    /\ UNCHANGED <<impl, capture_input, browser, capture_urls, screenshot_paths,
                   pdf_calls, notCapture>>

InitCapture ==
    /\ impl = "pkg"
    /\ capture_input \in Inputs
    /\ browser \in Browsers
    /\ capture_urls = <<>>
    /\ screenshot_paths = PyNone
    /\ pdf_calls = <<>>
    /\ capture_out = Returned(PyNone, PyNone, "")
    /\ cppc = "entry"
    /\ SitemapIdle
    /\ AuditIdle
    /\ AnalyzeIdle
    /\ SiteIdle
    /\ ReportIdle
    /\ ShotsIdle
    /\ WordPressIdle

NextCapture == CaptureEnter \/ CaptureCall \/ CapturePdf \/ CaptureReport

SpecCapture == InitCapture /\ [][NextCapture]_vars

(***************************************************************************)
(* reporter.prepare_dataframe and reporter.save_excel.                     *)
(***************************************************************************)

priority_cols ==
    << "url", "status_code", "status_type", "https_ok", "page_size_kb", "schema_types",
       "title", "title_len", "h1_text", "h1_count", "meta_description",
       "meta_description_len", "word_count", "internal_links", "external_links",
       "broken_links", "load_time_s", "issues_found" >>
InPriority(c) == \E k \in DOMAIN priority_cols : priority_cols[k] = c

\* The column names a DataFrame of the model may have: some priority
\* columns and some others.
ColumnNames ==
    {"url", "title", "issues_found", "load_time_s", "multiple_title_tags", "duplicate_title"}
\* df.columns: distinct names in any order.
ColumnLists == UNION {Orders(S) : S \in SUBSET ColumnNames}
\* The issues_found cell of a row: a list of issue texts, or text.
Cells == [kind : {"list", "text"}, items : {<<>>, <<"Missing H1">>, <<"Missing H1", "No Schema">>}]

ListHas(list, c) == \E k \in DOMAIN list : list[k] = c

FinalCols_PriorityOnly(cols) == SelectSeq(priority_cols, LAMBDA c : ListHas(cols, c))
\* Lines 18-23: priority_cols, then the other columns of df, then only
\* those that df has.
FinalCols(cols) ==
    SelectSeq(priority_cols \o SelectSeq(cols, LAMBDA c : ~InPriority(c)),
              LAMBDA c : ListHas(cols, c))

\* " | ".join(x) if isinstance(x, list) and x else "OK"
Beautify(cell) ==
    IF cell.kind = "list" /\ cell.items # <<>>
    THEN [kind |-> "text", items |-> cell.items]
    ELSE [kind |-> "text", items |-> <<"OK">>]

\* prepare_dataframe(df): the issues_found column is rewritten in df itself,
\* and the selection df[final_cols] is returned.
ReportPrepare ==
    /\ rppc = "prepare"
    /\ LET beautified == IF ListHas(report_df.columns, "issues_found")
                         THEN [report_df EXCEPT !.issues = Beautify(@)]
                         ELSE report_df
       IN  /\ report_df' = beautified
           /\ report_display' = [beautified EXCEPT !.columns = FinalCols(report_df.columns)]
    /\ rppc' = "save"
    /\ UNCHANGED <<impl, report_sheet, notReport>>

\* save_excel(df_display, filename): the header row is df.columns.
ReportSave ==
    /\ rppc = "save"
    /\ report_sheet' = report_display.columns
    /\ rppc' = "done"
    /\ UNCHANGED <<impl, report_df, report_display, notReport>>

InitReport ==
    /\ impl = "pkg"
    /\ report_df \in [columns : ColumnLists, issues : Cells]
    /\ report_display = <<>>
    /\ report_sheet = <<>>
    /\ rppc = "prepare"
    /\ SitemapIdle
    /\ AuditIdle
    /\ AnalyzeIdle
    /\ SiteIdle
    /\ CaptureIdle
    /\ ShotsIdle
    /\ WordPressIdle

NextReport == ReportPrepare \/ ReportSave

SpecReport == InitReport /\ [][NextReport]_vars

(***************************************************************************)
(* capturer.capture_screenshots, run to completion on an event loop.       *)
(***************************************************************************)

MaxShotUrls == 3
\* asyncio.Semaphore(20), scaled so that a list of MaxShotUrls URLs fills it.
SemaphoreValue == 2

\* What happens to the capture of one URL: every await of capture_task
\* succeeds; page.goto (or new_page, or screenshot) raises; or the file is
\* saved and page.close raises.
ShotOutcomes == {"captured", "goto raises", "close raises"}
ShotUrlLists == UNION {[1..n -> ShotOutcomes] : n \in 0..MaxShotUrls}

\* enumerate(urls): the idx of the URL at position k of the list.
Idx(k) == k - 1
\* filename = f"{idx + 1}.png"
FileNumber(idx) == idx + 1

\* What capture_task(idx, url) returns: (idx, filepath) or (idx, None).
TaskResult(idx, outcome) ==
    IF outcome = "captured"
    THEN [idx |-> idx, none |-> FALSE, file |-> FileNumber(idx)]
    ELSE [idx |-> idx, none |-> TRUE, file |-> 0]

SortByIdx_Unsorted(list) == list
\* results.sort(key=lambda x: x[0]): a stable sort on idx.
SortByIdx(list) ==
    LET Rank(j) == Cardinality({i \in DOMAIN list :
                       \/ list[i].idx < list[j].idx
                       \/ (list[i].idx = list[j].idx /\ i < j)}) + 1
    IN [r \in DOMAIN list |-> list[CHOOSE j \in DOMAIN list : Rank(j) = r]]

\* [path for idx, path in results if path]
PathsOf(list) ==
    LET kept == SelectSeq(list, LAMBDA res : ~res.none)
    IN [j \in DOMAIN kept |-> kept[j].file]

Capturing == {k \in DOMAIN shot_task : shot_task[k] = "capturing"}

\* Lines 58-79: the launch of chromium; a launch that fails, also after
\* the installation attempts, returns (output_folder, []).  Line 104
\* builds one capture_task per URL.
ShotLaunch ==
    /\ shpc = "launch"
    /\ IF shot_launches
       THEN /\ shot_task' = [k \in DOMAIN shot_urls |-> "pending"]
            /\ shot_sem' = SemaphoreValue
            /\ shpc' = "tasks"
            /\ UNCHANGED shot_out
       ELSE /\ shot_out' = PyTuple(<<>>)
            /\ shpc' = "done"
            /\ UNCHANGED <<shot_task, shot_sem>>
    /\ UNCHANGED <<impl, shot_urls, shot_progress, shot_launches, shot_results, shot_files,
                   notShots>>

\* `async with sem`: a task enters when the semaphore's value is positive.
ShotAcquire(k) ==
    /\ shpc = "tasks"
    /\ shot_task[k] = "pending"
    /\ shot_sem > 0
    /\ shot_sem' = shot_sem - 1
    /\ shot_task' = [shot_task EXCEPT ![k] = "capturing"]
    /\ UNCHANGED <<impl, shot_urls, shot_progress, shot_launches, shot_results, shot_files,
                   shot_out, shpc, notShots>>

\* Lines 87-102: the capture of one page, the release of the semaphore on
\* leaving the `async with`, and the append of lines 108-110 when the
\* results are taken with asyncio.as_completed.
ShotFinish(k) ==
    /\ shpc = "tasks"
    /\ shot_task[k] = "capturing"
    /\ shot_files' = IF shot_urls[k] \in {"captured", "close raises"}
                     THEN shot_files \cup {FileNumber(Idx(k))}
                     ELSE shot_files
    /\ shot_sem' = shot_sem + 1
    /\ shot_task' = [shot_task EXCEPT ![k] = "done"]
    /\ shot_results' = IF shot_progress
                       THEN Append(shot_results, TaskResult(Idx(k), shot_urls[k]))
                       ELSE shot_results
    /\ UNCHANGED <<impl, shot_urls, shot_progress, shot_launches, shot_out, shpc, notShots>>

\* Lines 106-114: every task is done.  asyncio.gather returns the results
\* in the order of the tasks; browser.close().
ShotCollect ==
    /\ shpc = "tasks"
    /\ \A k \in DOMAIN shot_task : shot_task[k] = "done"
    /\ shot_results' = IF shot_progress
                       THEN shot_results
                       ELSE [k \in DOMAIN shot_urls |-> TaskResult(Idx(k), shot_urls[k])]
    /\ shpc' = "collected"
    /\ UNCHANGED <<impl, shot_urls, shot_progress, shot_launches, shot_task, shot_sem,
                   shot_files, shot_out, notShots>>

\* Lines 119-126: the sort, the filter, the return.
ShotReturn ==
    /\ shpc = "collected"
    /\ shot_results' = SortByIdx(shot_results)
    /\ shot_out' = PyTuple(PathsOf(SortByIdx(shot_results)))
    /\ shpc' = "done"
    /\ UNCHANGED <<impl, shot_urls, shot_progress, shot_launches, shot_task, shot_sem,
                   shot_files, notShots>>

InitShots ==
    /\ impl = "pkg"
    /\ shot_urls \in ShotUrlLists
    /\ shot_progress \in BOOLEAN
    /\ shot_launches \in BOOLEAN
    /\ shot_task = <<>>
    /\ shot_sem = 0
    /\ shot_results = <<>>
    /\ shot_files = {}
    /\ shot_out = <<>>
    /\ shpc = "launch"
    /\ SitemapIdle
    /\ AuditIdle
    /\ AnalyzeIdle
    /\ SiteIdle
    /\ CaptureIdle
    /\ ReportIdle
    /\ WordPressIdle

NextShots ==
    \/ ShotLaunch
    \/ \E k \in DOMAIN shot_task : ShotAcquire(k)
    \/ \E k \in DOMAIN shot_task : ShotFinish(k)
    \/ ShotCollect
    \/ ShotReturn

SpecShots == InitShots /\ [][NextShots]_vars

(***************************************************************************)
(* ui.confirm_and_update, ui.auto_fix_schema and                           *)
(* wp_handler.push_schema_to_wordpress.                                    *)
(***************************************************************************)

MaxScore == 2

WpUrl == <<"a", ".co", "/", "p">>
\* The URL box: "", a blank, one URL without or with scheme, two URLs.
WpInputs ==
    {EmptyInput, << <<Sp>> >>, <<WpUrl>>, <<Https \o WpUrl>>, <<WpUrl, <<"b", ".co">>>>}
\* A text box: empty or filled.
Texts == {"", "text"}

\* What generate_improved_schema(url, api_key) returns: old_schema,
\* new_schema, old_score, new_score, summary.
Summaries == {<<"Added", "FAQ">>, <<"Error", ":", "quota">>, <<"No", "error">>}
Generated ==
    [old_schema : {"", "{old}"}, new_schema_str : {"", "{new}"},
     old_score : 0..MaxScore, new_score : 0..MaxScore, summary : Summaries]
generate_improved_schema(url, api_key, page_gen) == page_gen
NoGen == [old_schema |-> "", new_schema_str |-> "", old_score |-> 0, new_score |-> 0,
          summary |-> <<>>]

\* How the site answers push_schema_to_wordpress: the search for the
\* post raises, finds nothing, or finds it; then the POST raises, is
\* answered 200, or is answered otherwise.
WpSites == {"search raises", "not found", "post raises", "updated", "rejected"}

\* push_schema_to_wordpress: (success, message), and the POST it issued.
push_schema_to_wordpress(target_url, username, app_password, schema_json_str, answer) ==
    LET payload == [url |-> target_url, auth |-> <<username, app_password>>,
                    custom_schema_json |-> schema_json_str]
    IN CASE answer = "search raises" ->
              [success |-> FALSE, message |-> "Connection Error: {e}", posts |-> <<>>]
         [] answer = "not found" ->
              [success |-> FALSE, message |-> "Error: Could not find a Page or Post",
               posts |-> <<>>]
         [] answer = "post raises" ->
              [success |-> FALSE, message |-> "Connection Error: {e}",
               posts |-> <<payload>>]
         [] answer = "updated" ->
              [success |-> TRUE, message |-> "Success! Updated", posts |-> <<payload>>]
         [] OTHER ->
              [success |-> FALSE, message |-> "Failed to update.", posts |-> <<payload>>]

\* The call of push_schema_to_wordpress as the handlers make it.
PushCall(schema) == [url |-> wp_url, user |-> wp_user, pass |-> wp_pass, schema |-> schema]
Pushed(schema) == push_schema_to_wordpress(wp_url, wp_user, wp_pass, schema, wp_site)

WpReturned(msg, file) == [msg |-> msg, filename |-> file]

\* if not url.startswith("http"): url = "https://" + url
WithScheme(url) == IF StartsWithHttp(url) THEN url ELSE Https \o url

\* confirm_and_update, lines 110-115.
ConfirmEnter ==
    /\ wppc = "confirm"
    /\ IF wp_content = ""
       THEN /\ wp_out' = WpReturned("Error: No schema content generated yet.", "")
            /\ wppc' = "done"
            /\ UNCHANGED wp_url
       ELSE IF wp_user = "" \/ wp_pass = ""
       THEN /\ wp_out' = WpReturned("Error: WordPress Username and App Password are required.",
                                    "")
            /\ wppc' = "done"
            /\ UNCHANGED wp_url
       ELSE /\ wp_url' = WithScheme(wp_input[1])
            /\ wppc' = "backup"
            /\ UNCHANGED wp_out
    /\ UNCHANGED <<impl, wp_handler, wp_input, wp_api_key, wp_user, wp_pass, wp_content,
                   wp_gen, wp_disk, wp_site, wp_backups, wp_pushes, wp_posts, notWordPress>>

AfterBackup_Swallowed(written) == "push"
\* Lines 119-123: an exception of open or write returns the error.
AfterBackup(written) == IF written THEN "push" ELSE "done"

\* Lines 117-123: the backup file.
ConfirmBackup ==
    /\ wppc = "backup"
    /\ wp_backups' = IF wp_disk
                     THEN Append(wp_backups, [filename |-> "backup_schema_{timestamp}.json",
                                              content |-> wp_content])
                     ELSE wp_backups
    /\ wppc' = AfterBackup(wp_disk)
    /\ wp_out' = IF AfterBackup(wp_disk) = "done"
                 THEN WpReturned("Error saving local backup: {e}", "")
                 ELSE wp_out
    /\ UNCHANGED <<impl, wp_handler, wp_input, wp_api_key, wp_user, wp_pass, wp_content,
                   wp_gen, wp_disk, wp_site, wp_url, wp_pushes, wp_posts, notWordPress>>

\* Lines 125-132: the push and the log message.
ConfirmPush ==
    /\ wppc = "push"
    /\ wp_handler = "confirm_and_update"
    /\ wp_pushes' = Append(wp_pushes, PushCall(wp_content))
    /\ wp_posts' = wp_posts \o Pushed(wp_content).posts
    /\ wp_out' = WpReturned(IF Pushed(wp_content).success
                            THEN "LIVE UPDATE SUCCESSFUL!" ELSE "UPDATE FAILED",
                            "backup_schema_{timestamp}.json")
    /\ wppc' = "done"
    /\ UNCHANGED <<impl, wp_handler, wp_input, wp_api_key, wp_user, wp_pass, wp_content,
                   wp_gen, wp_disk, wp_site, wp_url, wp_backups, notWordPress>>

\* auto_fix_schema, lines 135-141; urls_list[0] of an empty list raises
\* IndexError.
FixEnter ==
    /\ wppc = "fix"
    /\ IF wp_input = EmptyInput \/ wp_api_key = "" \/ wp_user = "" \/ wp_pass = ""
       THEN /\ wp_out' = WpReturned("Error: All fields are required for Auto-Fix.", "")
            /\ wppc' = "done"
            /\ UNCHANGED wp_url
       ELSE IF StripAll(wp_input) = <<>>
       THEN /\ wppc' = "raised"
            /\ UNCHANGED <<wp_url, wp_out>>
       ELSE /\ wp_url' = WithScheme(StripAll(wp_input)[1])
            /\ wppc' = "generate"
            /\ UNCHANGED wp_out
    /\ UNCHANGED <<impl, wp_handler, wp_input, wp_api_key, wp_user, wp_pass, wp_content,
                   wp_gen, wp_disk, wp_site, wp_backups, wp_pushes, wp_posts, notWordPress>>

\* not new_schema_str or "Error" in summary
GenerationFailed(made) ==
    made.new_schema_str = "" \/ \E k \in DOMAIN made.summary : made.summary[k] = "Error"

Improved_OrEqual(old_score, new_score) == new_score >= old_score
\* if new_score > old_score:
Improved(old_score, new_score) == new_score > old_score

\* Lines 143-150 and 164-165: the generation and the two returns that
\* push nothing.
FixGenerate ==
    /\ wppc = "generate"
    /\ LET made == generate_improved_schema(wp_url, wp_api_key, wp_gen)
       IN IF GenerationFailed(made)
          THEN /\ wp_out' = WpReturned("Generation Failed: {summary}", "")
               /\ wppc' = "done"
          ELSE IF Improved(made.old_score, made.new_score)
          THEN /\ wppc' = "push"
               /\ UNCHANGED wp_out
          ELSE /\ wp_out' = WpReturned("No improvement found", "")
               /\ wppc' = "done"
    /\ UNCHANGED <<impl, wp_handler, wp_input, wp_api_key, wp_user, wp_pass, wp_content,
                   wp_gen, wp_disk, wp_site, wp_url, wp_backups, wp_pushes, wp_posts,
                   notWordPress>>

\* Lines 151-162: the push and the final message.
FixPush ==
    /\ wppc = "push"
    /\ wp_handler = "auto_fix_schema"
    /\ LET schema == generate_improved_schema(wp_url, wp_api_key, wp_gen).new_schema_str
       IN /\ wp_pushes' = Append(wp_pushes, PushCall(schema))
          /\ wp_posts' = wp_posts \o Pushed(schema).posts
          /\ wp_out' = WpReturned(IF Pushed(schema).success
                                  THEN "AUTO-FIX SUCCESSFUL"
                                  ELSE "Schema Improved but Update Failed", "")
    /\ wppc' = "done"
    /\ UNCHANGED <<impl, wp_handler, wp_input, wp_api_key, wp_user, wp_pass, wp_content,
                   wp_gen, wp_disk, wp_site, wp_url, wp_backups, notWordPress>>

InitWordPress ==
    /\ impl = "pkg"
    /\ wp_handler \in {"confirm_and_update", "auto_fix_schema"}
    /\ wp_user \in Texts
    /\ wp_pass \in Texts
    /\ wp_site \in WpSites
    /\ IF wp_handler = "confirm_and_update"
       THEN /\ wp_input \in {<<WpUrl>>, <<Https \o WpUrl>>}
            /\ wp_content \in {"", "{new}"}
            /\ wp_disk \in BOOLEAN
            /\ wp_api_key = ""
            /\ wp_gen = NoGen
            /\ wppc = "confirm"
       ELSE /\ wp_input \in WpInputs
            /\ wp_api_key \in Texts
            /\ wp_gen \in Generated
            /\ wp_content = ""
            /\ wp_disk = FALSE
            /\ wppc = "fix"
    /\ wp_url = <<>>
    /\ wp_backups = <<>>
    /\ wp_pushes = <<>>
    /\ wp_posts = <<>>
    /\ wp_out = <<>>
    /\ SitemapIdle
    /\ AuditIdle
    /\ AnalyzeIdle
    /\ SiteIdle
    /\ CaptureIdle
    /\ ReportIdle
    /\ ShotsIdle

NextWordPress ==
    \/ ConfirmEnter
    \/ ConfirmBackup
    \/ ConfirmPush
    \/ FixEnter
    \/ FixGenerate
    \/ FixPush

SpecWordPress == InitWordPress /\ [][NextWordPress]_vars

\* d's document lists d itself, or a document that leads back to d.
Reaches(a, b) ==
    LET Succ(S) == S \cup {e \in SitemapUrls :
                             \E d \in S : \E k \in 1..Len(Sitemaps(d)) : Sitemaps(d)[k] = e}
        One == Succ({e \in SitemapUrls : \E k \in 1..Len(Sitemaps(a)) : Sitemaps(a)[k] = e})
    IN  b \in Succ(Succ(One))
OnCycle(d) == Reaches(d, d)

\* C1: on every sitemap graph, cyclic ones included, the resolver
\* eventually returns, and a second call against the same server returns
\* the same finite set.
C1_TerminatesAndRepeats ==
    /\ <>(smpc = "done")
    /\ [](smpc = "done" =>
            /\ Len(results) = 2
            /\ results[1] = results[2]
            /\ IsFiniteSet(results[2]))

\* A call that went round a cycle (it parsed a document that leads back to
\* itself, and fetched it more than once) and returned.
C1_Witness ==
    /\ smpc = "done"
    /\ \E d \in parsed : OnCycle(d) /\ gets[d] > 1

\* C2: within one top-level call no sitemap URL is fetched more than once.
C2_NoSitemapFetchedTwice == \A u \in SitemapUrls : gets[u] <= 1

\* The entries of d's document that the <sitemap> loop of a call on d gets
\* to: crawler.py skips an entry without <loc>, main.py stops at it.
LoopReaches(d, k) ==
    /\ Sitemaps(d)[k] # NoLoc
    /\ impl = "main" => \A j \in 1..k : Sitemaps(d)[j] # NoLoc
Fails(u) == u # NoLoc /\ site[u].status # "ok"

\* C5: a failing child sitemap is swallowed: the resolver never raises,
\* collected never loses a URL during a call, and when the call has
\* returned every entry the loop of a parsed document gets to was recursed
\* into, the siblings after a failing child included.
C5_ChildFailureSwallowed ==
    /\ [](smpc # "raised")
    /\ [][run' = run => collected \subseteq collected']_vars
    /\ [](smpc = "done" =>
            \A d \in parsed : \A k \in 1..Len(Sitemaps(d)) :
                LoopReaches(d, k) => <<d, k>> \in calls)

\* A returned call in which a parsed index listed a failing child first
\* and a sibling second; the failing child was fetched, then the sibling.
C5_Witness ==
    /\ smpc = "done"
    /\ \E d \in parsed :
          /\ Len(Sitemaps(d)) = 2
          /\ Fails(Sitemaps(d)[1])
          /\ gets[Sitemaps(d)[1]] > 0
          /\ Sitemaps(d)[2] \in parsed
          /\ PageOf(Sitemaps(d)[2]) \in collected

Min(a, b) == IF a < b THEN a ELSE b
Completed == aupc = "done" /\ audit_out = "Audit Complete."

\* C3 as claimed: the report of every completed run has
\* min(discovered URLs, page_limit) records, whatever page_limit is.
C3_CountIsMinForEveryLimit ==
    Completed => Len(audit_results) = Min(Len(discovered), max_pages.n)

\* The number of pages a run is to analyze: a positive limit is a ceiling,
\* a limit of zero or less is no limit.
PagesToAnalyze ==
    IF max_pages.n > 0 THEN Min(Len(discovered), max_pages.n) ELSE Len(discovered)

\* C3 (amended): a run never analyzes more than PagesToAnalyze pages, and the
\* report of a completed run has exactly that many records.
C3_CountIsMinForPositiveLimit ==
    /\ Len(audit_results) <= Len(dispatched)
    /\ aupc \in {"loop", "analyzing", "done", "raised"} => Len(dispatched) <= PagesToAnalyze
    /\ Completed => Len(audit_results) = PagesToAnalyze

\* A completed run whose limit cut the discovered list short.
C3_Witness ==
    /\ Completed
    /\ max_pages.n > 0
    /\ Len(discovered) > max_pages.n
    /\ Len(audit_results) = max_pages.n

\* C4: the URLs handed to analyze_page are case-normalized and pairwise
\* distinct (so the result set holds one record per URL).
C4_DispatchedDistinctAndNormalized ==
    /\ \A j, k \in 1..Len(dispatched) :
          j # k => Lower(dispatched[j]) # Lower(dispatched[k])
    /\ \A j \in 1..Len(dispatched) : dispatched[j] = Lower(dispatched[j])


\* C6: analyze_page never propagates an exception to its caller: whatever
\* the response, the document, its JSON-LD and the link checks, the call
\* never ends by raising.
C6_NeverPropagates == appc # "raised"

\* C7: when the GET fails to connect or times out, the returned record has
\* status_code 0, status_type "Connection Error", exactly one issue and
\* every other field at its default, and no link check was attempted.
C7_ConnectionFailureRecord ==
    (appc = "done" /\ resp.conn = "error") =>
        /\ Len(result.issues_found) = 1
        /\ [result EXCEPT !.issues_found = <<>>]
              = [DefaultResult EXCEPT !.status_type = "Connection Error"]
        /\ links_to_test = <<>> /\ heads = <<>>

\* C8: the record returned for a page whose status is 4xx or 5xx carries an
\* issue.
C8_ErrorStatusHasIssue ==
    (appc = "done" /\ resp.conn = "ok" /\ resp.status >= 400) =>
        result.issues_found # <<>>

\* C9: in the package revision broken_links never exceeds
\* min(internal_links, MAX_BROKEN_LINK_CHECKS), neither in the returned
\* record nor in the running count of the pool.
C9_BrokenLinksBounded ==
    (impl = "pkg" /\ appc \in {"pool", "done"}) =>
        /\ broken_count <= Min(result.internal_links, MAX_BROKEN_LINK_CHECKS)
        /\ result.broken_links <= Min(result.internal_links, MAX_BROKEN_LINK_CHECKS)

\* A returned record of a page with more internal links than the cap, all
\* sampled links broken.
C9_Witness ==
    /\ impl = "pkg" /\ appc = "done"
    /\ result.internal_links > MAX_BROKEN_LINK_CHECKS
    /\ result.broken_links = MAX_BROKEN_LINK_CHECKS

Sampled == {links_to_test[k] : k \in DOMAIN links_to_test}
BrokenAmong(S) == Cardinality({l \in S : check_link_status(link_answers[l])})

\* C10: for a page with more distinct internal targets than the cap, exactly
\* cap links are sampled, no link gets more than one HEAD, no link outside
\* the sample gets any, and on return every sampled link got its HEAD and
\* broken_links is the number of broken links among the sampled ones.
C10_OnlyTheSampleCounts ==
    (appc \in {"pool", "done"} /\ Cardinality(DOMAIN heads) > LinkCap(impl)) =>
        /\ Len(links_to_test) = LinkCap(impl)
        /\ Cardinality(Sampled) = LinkCap(impl)
        /\ \A l \in DOMAIN heads : heads[l] <= 1 /\ (heads[l] = 1 => l \in Sampled)
        /\ appc = "done" =>
              /\ \A l \in Sampled : heads[l] = 1
              /\ result.broken_links = BrokenAmong(Sampled)

\* A returned record that reports no broken link although a link outside the
\* sample is broken.
C10_Witness ==
    /\ impl = "pkg" /\ appc = "done"
    /\ Cardinality(DOMAIN heads) > MAX_BROKEN_LINK_CHECKS
    /\ BrokenAmong(DOMAIN heads \ Sampled) > 0
    /\ result.broken_links = 0

\* The anchors of the page that are not javascript:, mailto:, tel: or
\* same-page fragment links.
Navigable == {k \in DOMAIN page.anchors :
                 page.anchors[k] = <<>>
                 \/ Head(page.anchors[k]) \notin {"javascript:", "mailto:", "tel:", "#"}}
OnSite(k) == Netloc(UrlJoin(PageUrl, page.anchors[k])) = SiteNetloc
FullyAnalyzed == appc = "done" /\ resp.conn = "ok" /\ ~SkipsParsing(resp)

\* C11: on a fully analyzed page internal_links is the number of navigable
\* anchors that resolve to the site host and external_links the number of
\* the other navigable anchors, so that their sum is the number of
\* navigable anchors and a skipped anchor is in neither.
C11_LinksPartitionAnchors ==
    FullyAnalyzed =>
        /\ result.internal_links = Cardinality({k \in Navigable : OnSite(k)})
        /\ result.external_links = Cardinality({k \in Navigable : ~OnSite(k)})
        /\ result.internal_links + result.external_links = Cardinality(Navigable)

\* C12: after the post-processing of a completed crawl a row has
\* duplicate_title exactly when its title is not empty and at least two rows
\* of the crawl have that title up to case.
C12_DuplicateTitleIffShared ==
    aspc = "done" =>
        \A k \in DOMAIN df :
            df[k].duplicate_title <=>
                /\ df[k].title # <<>>
                /\ Cardinality({j \in DOMAIN df : Lower(df[j].title) = Lower(df[k].title)}) >= 2

\* The progress values emitted for pages: all but the one of discovery.
PageProgress ==
    IF Len(urls_list) = 1 /\ progress_log # <<>> THEN Tail(progress_log) ELSE progress_log

\* C13: the progress values of a run never decrease, and the value emitted
\* for a page is completed/total, emitted once the analysis of that page has
\* finished: there are never more page values than finished analyses.
C13_ProgressAfterEachPage ==
    /\ \A j, k \in DOMAIN progress_log :
          j < k => progress_log[j][1] * progress_log[k][2]
                      <= progress_log[k][1] * progress_log[j][2]
    /\ Len(PageProgress) <= Len(audit_results)
    /\ \A k \in DOMAIN PageProgress : PageProgress[k] = <<k, Len(urls_to_scan)>>

\* C14: a second run that discovers the same set of URLs under the same
\* page limit scans the same URLs in the same order as the first.
C14_SameSetSameScan == rerun_to_scan = urls_to_scan

\* C15: what discovery yields for a single seed contains the prefixed start
\* URL, whatever the sitemap lists.
C15_DiscoveryKeepsStartUrl ==
    (Len(urls_list) = 1 /\ aupc \in {"loop", "analyzing", "done", "raised"}) =>
        \E k \in DOMAIN discovered : discovered[k] = urls_list[1]

\* The text box holds no URL: it is empty, or holds blanks and commas only.
SeedMissing == StripAll(urls_input) = <<>>

\* C16: when the seed URL is missing the run issues no sitemap fetch and no
\* analyze_page call, and it ends by returning the error message, not by
\* raising.
C16_MissingSeedReturnsError ==
    (SeedMissing /\ aupc # "idle") =>
        /\ sitemap_args = <<>>
        /\ dispatched = <<>>
        /\ aupc # "raised"
        /\ aupc = "done" => audit_out = "Please enter URL(s)."

\* The URL begins with "http://" or "https://".
HasScheme(u) ==
    /\ Len(u) >= 2 /\ u[1] = "http"
    /\ u[2] = "://" \/ (Len(u) >= 3 /\ u[2] = "s" /\ u[3] = "://")

\* C17: every seed of urls_list, and so every URL handed to analyze_page
\* for a run without sitemap, begins with "http://" or "https://".
C17_SeedsHaveScheme ==
    /\ \A k \in DOMAIN urls_list : HasScheme(urls_list[k])
    /\ \A k \in DOMAIN dispatched :
          (\E j \in DOMAIN urls_list : urls_list[j] = dispatched[k]) => HasScheme(dispatched[k])

Has(name) == \E k \in DOMAIN result.issues_found : result.issues_found[k].name = name
H1sOfPage == SelectSeq(page.headings, LAMBDA h : h.level = 1)

\* C18: on every fully analyzed page "Missing Title" is among the issues
\* exactly when title_len = 0 and "Multiple H1s" exactly when h1_count > 1;
\* a page with two <h1> and no <title> has h1_count = 2, title_len = 0 and
\* both issues.
C18_TitleAndH1Issues ==
    FullyAnalyzed =>
        /\ Has("Missing Title") <=> result.title_len = 0
        /\ Has("Multiple H1s") <=> result.h1_count > 1
        /\ (page.titles = <<>> /\ Len(H1sOfPage) = 2) =>
              /\ result.h1_count = 2 /\ result.title_len = 0
              /\ Has("Multiple H1s") /\ Has("Missing Title")

\* A fully analyzed page of the package revision with two <h1>, no <title>
\* and both issues.
C18_Witness ==
    /\ FullyAnalyzed /\ impl = "pkg"
    /\ page.titles = <<>> /\ Len(H1sOfPage) = 2
    /\ Has("Multiple H1s") /\ Has("Missing Title")

\* The title and the first <h1> of the page have text and are equal up to
\* case, the title trimmed.
TitleMatchesH1 ==
    /\ page.titles # <<>> /\ Strip(page.titles[1]) # <<>>
    /\ H1sOfPage # <<>> /\ H1sOfPage[1].text # <<>>
    /\ Lower(Strip(page.titles[1])) = Lower(H1sOfPage[1].text)

\* C19: on a fully analyzed page h1_equals_title is set, and the issue
\* "Title identical to H1" is present, exactly when the trimmed title and
\* the first H1 are non-empty and equal ignoring case.
C19_TitleIdenticalToH1 ==
    FullyAnalyzed =>
        /\ result.h1_equals_title <=> TitleMatchesH1
        /\ Has("Title identical to H1") <=> TitleMatchesH1

\* run_capture_ui got past the call of capture_screenshots.
CaptureAttempted ==
    \/ cppc \in {"pdf", "report", "raised"}
    \/ cppc = "done" /\ capture_out.status # "Please enter URL(s)."

\* C20: when the capture yields no screenshot path, run_capture_ui never
\* calls create_pdf and ends by returning (None, None, status) with the
\* status "Failed to capture screenshots."
C20_NoScreenshotNoPdf ==
    (CaptureAttempted /\ Captured(capture_urls, browser).paths = <<>>) =>
        /\ pdf_calls = <<>>
        /\ cppc = "done"
        /\ capture_out = Returned(PyNone, PyNone, "Failed to capture screenshots.")

\* C21: when the capture yields a non-empty list of paths, create_pdf is
\* called with exactly that list and a file name ending in ".pdf", and the
\* handler returns that list with the path create_pdf returned.
C21_PathsReachCreatePdf ==
    (CaptureAttempted /\ Captured(capture_urls, browser).paths # <<>>) =>
        /\ cppc # "raised"
        /\ \A k \in DOMAIN pdf_calls :
              /\ pdf_calls[k].arg.kind = "list"
              /\ pdf_calls[k].arg.paths = Captured(capture_urls, browser).paths
              /\ pdf_calls[k].filename[Len(pdf_calls[k].filename)] = ".pdf"
        /\ cppc = "done" =>
              /\ Len(pdf_calls) = 1
              /\ capture_out.shots = PyList(Captured(capture_urls, browser).paths)
              /\ capture_out.pdf = pdf_calls[1].returned

Prepared == rppc \in {"save", "done"}
PositionIn(list, c) == CHOOSE k \in DOMAIN list : list[k] = c

\* C22: the columns of the frame prepare_dataframe returns are a
\* permutation of the columns it was given; the priority columns come first,
\* in the order of the priority list, and the other columns follow in the
\* order they had.
C22_PrepareDropsNothing ==
    Prepared =>
        LET inp == report_df.columns
            out == report_display.columns
        IN  /\ Len(out) = Len(inp)
            /\ \A c \in ColumnNames : ListHas(out, c) <=> ListHas(inp, c)
            /\ \A j, k \in DOMAIN out :
                  j < k =>
                     /\ out[j] # out[k]
                     /\ InPriority(out[k]) => InPriority(out[j])
                     /\ InPriority(out[k]) =>
                           PositionIn(priority_cols, out[j]) < PositionIn(priority_cols, out[k])
                     /\ ~InPriority(out[j]) =>
                           PositionIn(inp, out[j]) < PositionIn(inp, out[k])

\* A frame whose first column is not a priority column and which has two
\* other columns, after prepare_dataframe moved the priority columns first.
C22_Witness ==
    /\ Prepared
    /\ Len(report_df.columns) = Cardinality(ColumnNames)
    /\ ~InPriority(report_df.columns[1])
    /\ report_display.columns # report_df.columns
    /\ report_display.columns[1] = "url"

\* C23: on a fully analyzed page every rule whose condition holds adds its
\* issue: several <title> tags, a first heading that is not an H1 and fewer
\* than 300 words each put an issue in the list, whatever else fired.
C23_EveryRuleFires ==
    FullyAnalyzed =>
        /\ result.multiple_title_tags => Has("Multiple <title> tags")
        /\ result.sequential_h1_error => Has("Hierarchy Error: H1 is not first heading")
        /\ result.word_count < 300 => Has("Thin Content")
        /\ result.title_len = 0 => Has("Missing Title")
        /\ result.h1_count = 0 => Has("Missing H1")
        /\ result.h1_count > 1 => Has("Multiple H1s")
        /\ result.missing_alt_count > 0 => Has("{n} Images missing Alt")
        /\ result.broken_links > 0 => Has("{n} Broken Links")

\* The sampled links whose HEAD answers 400 or more, or does not answer.
SampledBroken ==
    {l \in Sampled : link_answers[l].timeout \/ link_answers[l].status >= 400}

\* C24: in the package revision the pool never runs more HEAD checks at a
\* time than it has workers, broken_links is written only once every
\* submitted check has completed and been collected, and it is then the
\* number of sampled links whose check reported broken, whatever the order
\* in which the workers finished.
C24_PoolJoinedBeforeReturn ==
    impl = "pkg" =>
        /\ appc = "pool" =>
              /\ Cardinality(Running) <= PoolWorkers
              /\ result.broken_links = 0
              /\ broken_count <= Cardinality(SampledBroken)
        /\ FullyAnalyzed =>
              /\ \A k \in DOMAIN checks : checks[k] = "collected"
              /\ \A l \in Sampled : heads[l] = 1
              /\ result.broken_links = Cardinality(SampledBroken)

\* A returned record of the package revision whose pool had as many checks
\* as workers, one of which reported broken.
C24_Witness ==
    /\ impl = "pkg" /\ FullyAnalyzed
    /\ Len(links_to_test) = PoolWorkers
    /\ result.broken_links = 1

\* The type names of a script block that is well-formed JSON-LD: its JSON
\* parses and every @type in it is a string or a list of strings.
WellFormedTypes(sc) ==
    LET alone == extract_recursive(sc.data, {})
    IN  IF sc.text /\ sc.json /\ ~alone.raised /\ \A t \in alone.types : t.k = "str"
        THEN {t.s : t \in alone.types}
        ELSE {}
InSchemaTypes(name) ==
    \E k \in DOMAIN result.schema_types : result.schema_types[k] = name

\* C25: get_schema_types never raises (a page without anchors is always
\* analyzed to the end), and the types of every well-formed block are in
\* schema_types, whatever the other blocks of the page hold.
C25_BadBlocksTolerated ==
    (impl = "pkg" /\ resp = BaseResponse /\ page.anchors = <<>>) =>
        /\ appc # "raised"
        /\ appc = "done" =>
              \A k \in DOMAIN page.scripts :
                  \A name \in WellFormedTypes(page.scripts[k]) : InSchemaTypes(name)


\* C26: when the single seed's sitemap.xml yields no URL (a 404 or an
\* unparseable body) and robots.txt names a sitemap, the page URLs of that
\* sitemap are in the discovered set.
C26_RobotsFallback ==
    (/\ Len(urls_list) = 1
     /\ aupc \in {"loop", "analyzing", "done", "raised"}
     /\ discovered = urls_list) =>
        \A u \in audit_robots : \E k \in DOMAIN discovered : discovered[k] = u

\* C28: for a text box that is non-empty but holds no URL the run raises
\* nothing, issues no analyze_page call and ends with the error message.
C28_BlankInputIsMissingSeed ==
    (SeedMissing /\ urls_input # EmptyInput /\ aupc # "idle") =>
        /\ dispatched = <<>>
        /\ aupc # "raised"
        /\ aupc = "done" => audit_out = "Please enter URL(s)."


\* C27: never more captures are in flight than the semaphore admits; the
\* capture of the URL at input index i is saved as (i+1).png; and what is
\* returned are the paths of the captures that succeeded, in the order of
\* the input list, however the tasks completed.
C27_CapturesBoundedAndOrdered ==
    /\ Cardinality(Capturing) <= SemaphoreValue
    /\ \A k \in DOMAIN shot_task :
          (shot_task[k] = "done" /\ shot_urls[k] = "captured") => (Idx(k) + 1) \in shot_files
    /\ \A n \in shot_files : n \in DOMAIN shot_task /\ shot_urls[n] # "goto raises"
    /\ (shpc = "done" /\ shot_launches) =>
          shot_out.paths = SelectSeq([k \in DOMAIN shot_urls |-> k],
                                     LAMBDA k : shot_urls[k] = "captured")

\* More URLs than the semaphore has places were captured, the first URL's
\* capture was not the first to complete, one capture failed and one
\* succeeded.
C27_Witness ==
    /\ shpc = "collected"
    /\ Len(shot_urls) > SemaphoreValue
    /\ shot_results[1].idx # 0
    /\ \E k \in DOMAIN shot_urls : shot_urls[k] # "captured"
    /\ \E k \in DOMAIN shot_urls : shot_urls[k] = "captured"


AllFieldsGiven ==
    wp_input # EmptyInput /\ wp_api_key # "" /\ wp_user # "" /\ wp_pass # ""

\* C29: auto_fix_schema calls push_schema_to_wordpress at most once and
\* issues at most one POST, and a push is made only when all four inputs
\* are present, the generation gave a non-empty schema and a summary
\* without "Error", and new_score > old_score.
C29_PushOnlyOnImprovement ==
    wp_handler = "auto_fix_schema" =>
        /\ Len(wp_pushes) <= 1
        /\ Len(wp_posts) <= Len(wp_pushes)
        /\ wp_pushes # <<>> =>
              /\ AllFieldsGiven
              /\ wp_gen.new_schema_str # ""
              /\ \A k \in DOMAIN wp_gen.summary : wp_gen.summary[k] # "Error"
              /\ wp_gen.new_score > wp_gen.old_score
              /\ wp_pushes[1].schema = wp_gen.new_schema_str

\* An improved schema was pushed and the POST reached the site.
C29_Witness ==
    /\ wp_handler = "auto_fix_schema"
    /\ wppc = "done"
    /\ wp_posts # <<>>
    /\ wp_gen.old_score > 0

BackupErrors ==
    {"Error: No schema content generated yet.",
     "Error: WordPress Username and App Password are required.",
     "Error saving local backup: {e}"}

\* C30: confirm_and_update calls push_schema_to_wordpress only after the
\* backup file holding the schema was written, and when the write fails,
\* or the schema content or a credential is missing, it makes no push and
\* returns an error message.
C30_BackupBeforePush ==
    wp_handler = "confirm_and_update" =>
        /\ wp_pushes # <<>> =>
              \E k \in DOMAIN wp_backups : wp_backups[k].content = wp_pushes[1].schema
        /\ (wppc = "done" /\ (~wp_disk \/ wp_content = "" \/ wp_user = "" \/ wp_pass = "")) =>
              /\ wp_pushes = <<>>
              /\ wp_posts = <<>>
              /\ wp_out.msg \in BackupErrors

\* The schema was backed up and then pushed to the site.
C30_Witness ==
    /\ wp_handler = "confirm_and_update"
    /\ wppc = "done"
    /\ wp_backups # <<>>
    /\ wp_posts # <<>>

====
